---- MODULE Spec2Model ----
(***************************************************************************)
(* Signal debouncer (ATmega8/88): the jiffies clock built from TIMER1 and  *)
(* its overflow interrupt, the per-connection debounce state machine, the  *)
(* level-counted outputs and main()'s start-up, as coded in src/main.c     *)
(* (current revision, lines 1-443) with src/target_cncjoints.c.            *)
(*                                                                         *)
(* A 32-bit word is the pair <<high 16 bits, low 16 bits>>, which is how   *)
(* get_jiffies() builds it.                                                *)
(***************************************************************************)
EXTENDS Integers, Naturals, Sequences, FiniteSets, TLC

VARIABLES
    pc,                \* position of the polling thread (main and its callees)
    i,                 \* loop index of setup_ports / scan_input_pins
    retTo,             \* where get_jiffies() returns to
    low, high,         \* locals of get_jiffies()
    iters,             \* iterations of the loop of the current or last get_jiffies() call
    now,               \* local `now' of setup_ports / scan_input_pins
    SREG_I,            \* global interrupt enable bit
    TCCR1B,            \* timer 1 clock select (0: timer stopped)
    TOIE1,             \* TIMSK1: overflow interrupt enable
    TCNT1,             \* 16-bit hardware counter
    TOV1,              \* TIFR1: overflow flag
    jiffies_high16,    \* software high word
    MCUSR,             \* reset cause flags
    PORT, DDR,         \* port and data direction registers, sets of set bits
    input_is_asserted, \* connection state
    dwell_timeout,     \* connection deadline
    level,             \* output trigger level
    wdt_resets,        \* watchdog resets issued in the current pass
    \* history (observation only)
    wraps,             \* wraps of TCNT1 so far, modulo 2^16
    sampleWraps,       \* wraps at the moment get_jiffies() last read TCNT1
    testWraps,         \* wraps at the moment get_jiffies() last tested TOV1 at the top
                       \* of its loop
    bigUsed,           \* the long idle period (BigStep) has been taken
    highSpan,          \* ticks since the first of the current run of high reads of a
                       \* Deasserted connection's input, capped; -1 outside a run
    t0,                \* now of the scan that first saw a Deasserted connection's input asserted
    t1,                \* now of the scan that first saw an Asserted connection's input deasserted
    lastOp,            \* what the scan_one_input_pin() call just made did and read, and
                       \* how many times it called output_hw_set()
    passes,            \* passes of scan_input_pins started
    ticks,             \* Tick steps taken
    scanned,           \* the connections scanned so far in the current pass, in order
    \* the ordering macros taken alone
    ta_a, ta_b,        \* the arguments a and b
    ta_after,          \* {the result of time_after(a, b)}, {} before it is evaluated
    ta_before,         \* {the result of time_before(a, b)}, {} before it is evaluated
    \* the reading of an input pin taken alone
    in_flags,          \* the flags of the input
    in_pin,            \* the byte read from its PIN register
    in_bit,            \* its bit number
    in_cur,            \* {hw_input_asserted as scan_one_input_pin() computes it}, {} before
    in_old,            \* {hw_input_asserted as the older revision computes it}, {} before
    \* the debounce engine taken alone: scan_one_input_pin() on two copies of
    \* one connection, the clock of the second copy shifted
    eng_now,           \* the now of the last scan of the first copy
    eng_k,             \* the shift: the second copy is scanned with now + k
    eng_a,             \* the first copy: the connection, the levels and the port
    eng_b,             \* the second copy
    eng_hw,            \* the normalized input read by the last scan
    eng_ticks,         \* short steps of the clock taken
    eng_build          \* how the build evaluates an overflowing time_before()

vars == <<pc, i, retTo, low, high, iters, now, SREG_I, TCCR1B, TOIE1, TCNT1, TOV1,
          jiffies_high16, MCUSR, PORT, DDR, input_is_asserted,
          dwell_timeout, level, wdt_resets, wraps, sampleWraps, testWraps,
          bigUsed, highSpan, t0, t1, lastOp, passes, ticks, scanned,
          ta_a, ta_b, ta_after, ta_before,
          in_flags, in_pin, in_bit, in_cur, in_old,
          eng_now, eng_k, eng_a, eng_b, eng_hw, eng_ticks, eng_build>>

----------------------------------------------------------------------------
(* Bounds of the model *)

\* connections of the table that are modelled (a prefix of the table)
NConn == 3
\* passes of the scan loop that are counted (the loop itself goes on)
MaxPasses == 3
\* Tick steps
MaxTicks == 2
\* how far the sample ticks of the ordering macros lie from their anchors
MaxOffset == 2

----------------------------------------------------------------------------
(* 16- and 32-bit arithmetic *)

W16 == 65536
W8 == 256

Zero32 == <<0, 0>>

\* x + n modulo 2^32, n a natural number below 2^31
U32Add(x, n) ==
    LET s == x[2] + n
    IN  <<(x[1] + (s \div W16)) % W16, s % W16>>

\* x + y modulo 2^32, both 32-bit words
U32Plus(x, y) ==
    LET s == x[2] + y[2]
    IN  <<(x[1] + y[1] + (s \div W16)) % W16, s % W16>>

\* b - a modulo 2^32
U32Sub(b, a) ==
    LET lo == b[2] - a[2]
        borrow == IF lo < 0 THEN 1 ELSE 0
    IN  <<(b[1] - a[1] - borrow + 2 * W16) % W16, (lo + W16) % W16>>

\* unsigned order of two words
U32Less(x, y) == x[1] < y[1] \/ (x[1] = y[1] /\ x[2] < y[2])
U32Leq(x, y) == x = y \/ U32Less(x, y)

\* the word of a natural number below 2^31
U32(n) == <<(n \div W16) % W16, n % W16>>

\* (int32_t)x
S32(x) == IF x[1] >= 32768 THEN (x[1] - W16) * W16 + x[2] ELSE x[1] * W16 + x[2]

\* whether the signed subtraction x - y leaves the range of int32_t
SubOverflows(x, y) ==
    LET sx == S32(x)
        sy == S32(y)
    IN  IF sx >= 0 /\ sy < 0 THEN sx > 2147483647 + sy
        ELSE IF sx < 0 /\ sy >= 0 THEN sx < (-2147483647 - 1) + sy
        ELSE FALSE

----------------------------------------------------------------------------
(* Calibration and timing helpers *)

JIFFIES_PER_SECOND == 2500000

MSEC_TO_USEC(msec) == msec * 1000

\* U32(U64(usec) * JIFFIES_PER_SECOND / U64(1000000)); the quotient is taken
\* in two steps to stay within 32-bit model values (JIFFIES_PER_SECOND is a
\* multiple of 100000, so the result is the same).
USEC_TO_JIFFIES(usec) == (usec * (JIFFIES_PER_SECOND \div 100000)) \div 10

DEBOUNCE_DWELL_TIME == MSEC_TO_USEC(100)
DEBOUNCE_ACTIVE_TIME == 200

ActiveTicks == USEC_TO_JIFFIES(DEBOUNCE_ACTIVE_TIME)
DwellTicks == USEC_TO_JIFFIES(DEBOUNCE_DWELL_TIME)

\* a variant that also answers true for equal ticks
time_after_or_equal(a, b) ==
    IF SubOverflows(b, a) THEN BOOLEAN ELSE {S32(b) - S32(a) <= 0}

\* ((int32_t)(b) - (int32_t)(a) < 0): the set of results the build can give.
\* The subtraction is done in int32_t; when it overflows the behaviour is
\* undefined (the compiler may wrap it or compare the operands instead), and
\* both truth values are possible.
time_after(a, b) ==
    IF SubOverflows(b, a) THEN BOOLEAN ELSE {S32(b) - S32(a) < 0}

time_before(a, b) == time_after(b, a)

----------------------------------------------------------------------------
(* The static tables of target_cncjoints.c *)

OUTPUT_INVERT == "OUTPUT_INVERT"
INPUT_PULLUP == "INPUT_PULLUP"
INPUT_INVERT == "INPUT_INVERT"
NONE == {}

DEF_OUTPUT(portid, bit, flags) == [output_port |-> portid, output_bit |-> bit, flags |-> flags]
DEF_INPUT(portid, bit, flags) == [input_port |-> portid, input_bit |-> bit, flags |-> flags]

OutputNames == {"C5", "C4", "C3", "C2", "C1", "C0"}

output_pin ==
    [o \in OutputNames |->
        CASE o = "C5" -> DEF_OUTPUT("C", 5, {OUTPUT_INVERT})
          [] o = "C4" -> DEF_OUTPUT("C", 4, NONE)
          [] o = "C3" -> DEF_OUTPUT("C", 3, {OUTPUT_INVERT})
          [] o = "C2" -> DEF_OUTPUT("C", 2, NONE)
          [] o = "C1" -> DEF_OUTPUT("C", 1, {OUTPUT_INVERT})
          [] o = "C0" -> DEF_OUTPUT("C", 0, NONE)]

connections ==
    << [in |-> DEF_INPUT("D", 0, NONE), out |-> "C5"],
       [in |-> DEF_INPUT("D", 1, NONE), out |-> "C5"],
       [in |-> DEF_INPUT("D", 2, NONE), out |-> "C4"],
       [in |-> DEF_INPUT("D", 3, NONE), out |-> "C3"],
       [in |-> DEF_INPUT("D", 4, NONE), out |-> "C3"],
       [in |-> DEF_INPUT("D", 5, NONE), out |-> "C2"],
       [in |-> DEF_INPUT("D", 6, NONE), out |-> "C1"],
       [in |-> DEF_INPUT("D", 7, NONE), out |-> "C1"],
       [in |-> DEF_INPUT("B", 0, NONE), out |-> "C0"] >>

\* ARRAY_SIZE(connections), cut to the modelled prefix
ARRAY_SIZE == IF NConn < Len(connections) THEN NConn ELSE Len(connections)

\* connection indices as in C, 0 .. ARRAY_SIZE - 1
Conns == 0 .. (ARRAY_SIZE - 1)
Conn(c) == connections[c + 1]

\* the outputs the modelled connections reference
Outputs == {Conn(c).out : c \in Conns}

TEST_PORT == "B"
TEST_BIT == 1

Ports == {"B", "C", "D"}

----------------------------------------------------------------------------
(* Model bounds on the environment *)

\* ticks by which the hardware counter may advance in one step: the active
\* time, the dwell time, and a long idle period that ends 256 ticks before
\* the 32-bit clock reaches 2^31 for the first time, taken at most once
BigStep == (32767 * W16) + (W16 - W8)
TickSteps == {ActiveTicks, DwellTicks, BigStep}

\* the ticks of a 50 us noise pulse, and the cap of highSpan
PulseTicks == USEC_TO_JIFFIES(50)
HighCap == PulseTicks + 1

\* reset causes other than power-on that the hardware may report at boot:
\* a watchdog reset, a brown-out reset
FaultCauses == {{"WDRF"}, {"BORF"}}

NoTime == <<>>
NoOp == [op |-> "none", hw |-> FALSE, writes |-> 0]

----------------------------------------------------------------------------
(* Initial state: the registers after reset, static storage zeroed *)

\* a connection before setup_ports(), with the levels and the port
NoConn == [asserted |-> FALSE, dl |-> Zero32,
           L |-> [o \in Outputs |-> 0], P |-> [p \in Ports |-> {}]]

\* no copy of a connection is being scanned
EngineIdle ==
    /\ eng_now = Zero32
    /\ eng_k = Zero32
    /\ eng_a = NoConn
    /\ eng_b = NoConn
    /\ eng_hw = FALSE
    /\ eng_ticks = 0
    /\ eng_build = "none"

\* no input reading is being evaluated
InputIdle ==
    /\ in_flags = NONE
    /\ in_pin = 0
    /\ in_bit = 0
    /\ in_cur = {}
    /\ in_old = {}

Init ==
    /\ pc = "main"
    /\ i = 0
    /\ retTo = "none"
    /\ low = 0
    /\ high = 0
    /\ iters = 0
    /\ now = Zero32
    /\ SREG_I = FALSE
    /\ TCCR1B = 0
    /\ TOIE1 = FALSE
    /\ TCNT1 = 0
    /\ TOV1 = FALSE
    /\ jiffies_high16 = 0
    /\ MCUSR = {"PORF"}
    /\ PORT = [p \in Ports |-> {}]
    /\ DDR = [p \in Ports |-> {}]
    /\ input_is_asserted = [c \in Conns |-> FALSE]
    /\ dwell_timeout = [c \in Conns |-> Zero32]
    /\ level = [o \in Outputs |-> 0]
    /\ wdt_resets = 0
    /\ wraps = 0
    /\ sampleWraps = 0
    /\ testWraps = 0
    /\ bigUsed = FALSE
    /\ highSpan = [c \in Conns |-> -1]
    /\ t0 = [c \in Conns |-> NoTime]
    /\ t1 = [c \in Conns |-> NoTime]
    /\ lastOp = NoOp
    /\ passes = 0
    /\ ticks = 0
    /\ scanned = <<>>
    /\ ta_a = Zero32
    /\ ta_b = Zero32
    /\ ta_after = {}
    /\ ta_before = {}
    /\ InputIdle
    /\ EngineIdle

hwVars == <<SREG_I, TCCR1B, TOIE1, TCNT1, TOV1, jiffies_high16, MCUSR>>
clockHist == <<wraps, sampleWraps, testWraps, bigUsed>>
connVars == <<input_is_asserted, dwell_timeout, level>>
scanHist == <<highSpan, t0, t1, lastOp>>
taVars == <<ta_a, ta_b, ta_after, ta_before>>
inVars == <<in_flags, in_pin, in_bit, in_cur, in_old>>
engVars == <<eng_now, eng_k, eng_a, eng_b, eng_hw, eng_ticks, eng_build>>
pureVars == <<taVars, inVars, engVars>>

----------------------------------------------------------------------------
(* The hardware: timer 1, its overflow interrupt, the input pins *)

\* an overflow interrupt is pending and enabled: the CPU takes it before the
\* next instruction of the polling thread
IrqPending == SREG_I /\ TOIE1 /\ TOV1

\* the positions at which the polling thread is about to call get_jiffies()
\* or is inside it
ClockPcs == {"setup_ports", "scan_input_pins", "gj_pending", "gj_low", "gj_high",
             "gj_recheck", "gj_irq_enable"}

\* The counter advances by d ticks. Every wrap sets TOV1. When interrupts
\* are enabled, each wrap but the last has been served by the overflow
\* interrupt before the next one; a wrap while TOV1 is still pending is
\* excluded (at most one wrap happens while the flag is unserved). The
\* program looks at the counter and the flag only in get_jiffies(), so time
\* that passes elsewhere is taken at the next call.
Tick(d) ==
    LET s == TCNT1 + (d % W16)
        w == (d \div W16) + (s \div W16)
    IN  /\ TCCR1B # 0
        /\ pc \in ClockPcs
        /\ ticks < MaxTicks
        /\ ticks' = ticks + 1
        /\ TCNT1' = s % W16
        /\ w > 0 => ~TOV1
        /\ w > 1 => SREG_I /\ TOIE1
        /\ TOV1' = (TOV1 \/ w > 0)
        /\ jiffies_high16' = IF w > 1 THEN (jiffies_high16 + (w - 1)) % W16 ELSE jiffies_high16
        /\ wraps' = (wraps + w) % W16
        /\ d = BigStep => ~bigUsed
        /\ bigUsed' = (bigUsed \/ d = BigStep)
        /\ highSpan' = [c \in Conns |->
                          IF highSpan[c] < 0 THEN -1
                          ELSE IF d >= HighCap \/ highSpan[c] + d >= HighCap THEN HighCap
                          ELSE highSpan[c] + d]
        /\ UNCHANGED <<pc, i, retTo, low, high, iters, now, SREG_I, TCCR1B, TOIE1, MCUSR, pureVars, scanned,
                       PORT, DDR, connVars, wdt_resets, sampleWraps, testWraps,
                       t0, t1, lastOp, passes>>

\* a variant of the handler that drops the carry into the high byte
TIMER1_OVF_vect_no_carry ==
    /\ SREG_I
    /\ TOIE1
    /\ TOV1
    /\ TOV1' = FALSE
    /\ jiffies_high16' = (jiffies_high16 \div W8) * W8 + ((jiffies_high16 + 1) % W8)
    /\ UNCHANGED <<pc, i, retTo, low, high, iters, now, SREG_I, TCCR1B, TOIE1, TCNT1,
                   MCUSR, pureVars, scanned, PORT, DDR, connVars, wdt_resets, clockHist,
                   scanHist, passes, ticks>>

\* TIMER1_OVF_vect: the handler adds one to jiffies_high16 byte by byte
\* (subi on the low byte, sbci with the borrow on the high byte). The
\* hardware clears TOV1 when it enters the vector; SREG is saved and restored.
TIMER1_OVF_vect ==
    LET lo8 == jiffies_high16 % W8
        hi8 == jiffies_high16 \div W8
        lo8n == (lo8 + 1) % W8
        borrow == IF lo8 < 255 THEN 1 ELSE 0
        hi8n == (hi8 + 1 - borrow) % W8
    IN  /\ SREG_I
        /\ TOIE1
        /\ TOV1
        /\ TOV1' = FALSE
        /\ jiffies_high16' = hi8n * W8 + lo8n
        /\ UNCHANGED <<pc, i, retTo, low, high, iters, now, SREG_I, TCCR1B, TOIE1, TCNT1,
                       MCUSR, pureVars, scanned, PORT, DDR, connVars, wdt_resets, clockHist,
                       scanHist, passes, ticks>>

----------------------------------------------------------------------------
(* main() up to the scan loop *)

\* main: irq_disable(); TEST_DDR |= (1 << TEST_BIT); TEST_PORT &= ~(1 << TEST_BIT)
MainStart ==
    /\ pc = "main"
    /\ ~IrqPending
    /\ SREG_I' = FALSE
    /\ DDR' = [DDR EXCEPT ![TEST_PORT] = @ \cup {TEST_BIT}]
    /\ PORT' = [PORT EXCEPT ![TEST_PORT] = @ \ {TEST_BIT}]
    /\ pc' = "setup_jiffies"
    /\ UNCHANGED <<i, retTo, low, high, iters, now, TCCR1B, TOIE1, TCNT1, TOV1,
                   jiffies_high16, MCUSR, pureVars, scanned, connVars, wdt_resets, clockHist,
                   scanHist, passes, ticks>>

\* 1 << CS11
SYSTIMER_TIMERFREQ == 2

\* setup_jiffies: start the timer, enable the overflow interrupt;
\* jiffies_test() returns at once (disabled).
setup_jiffies ==
    /\ pc = "setup_jiffies"
    /\ ~IrqPending
    /\ TCCR1B' = SYSTIMER_TIMERFREQ
    /\ TOIE1' = TRUE
    /\ pc' = "setup_ports"
    /\ UNCHANGED <<i, retTo, low, high, iters, now, SREG_I, TCNT1, TOV1, jiffies_high16,
                   MCUSR, pureVars, scanned, PORT, DDR, connVars, wdt_resets, clockHist,
                   scanHist, passes, ticks>>

----------------------------------------------------------------------------
(* get_jiffies(), one step per access to the shared state *)

\* the call (from setup_ports or from the top of the scan loop) and irq_disable()
get_jiffies_irq_disable ==
    /\ ~IrqPending
    /\ \/ /\ pc = "setup_ports"
          /\ retTo' = "setup_ports_loop"
          /\ UNCHANGED passes
       \/ /\ pc = "scan_input_pins"
          /\ passes' = IF passes < MaxPasses THEN passes + 1 ELSE passes
          /\ retTo' = "scan_loop"
    /\ SREG_I' = FALSE
    /\ pc' = "gj_pending"
    /\ iters' = 0
    /\ UNCHANGED <<i, low, high, now, TCCR1B, TOIE1, TCNT1, TOV1, jiffies_high16,
                   MCUSR, pureVars, scanned, PORT, DDR, connVars, wdt_resets, clockHist,
                   scanHist, ticks>>

\* a variant that counts a pending overflow and leaves TOV1 set
get_jiffies_pending_keeps_flag ==
    /\ pc = "gj_pending"
    /\ ~IrqPending
    /\ IF TOV1
       THEN /\ jiffies_high16' = (jiffies_high16 + 1) % W16
            /\ UNCHANGED TOV1
       ELSE UNCHANGED <<jiffies_high16, TOV1>>
    /\ pc' = "gj_low"
    /\ iters' = iters + 1
    /\ testWraps' = wraps
    /\ UNCHANGED <<i, retTo, low, high, now, SREG_I, TCCR1B, TOIE1, TCNT1, MCUSR, pureVars, scanned,
                   PORT, DDR, connVars, wdt_resets, wraps, sampleWraps, bigUsed, scanHist,
                   passes, ticks>>

\* if (TIFR1 & (1 << TOV1)) { jiffies_high16++; TIFR1 |= (1 << TOV1); }
get_jiffies_pending ==
    /\ pc = "gj_pending"
    /\ ~IrqPending
    /\ IF TOV1
       THEN /\ jiffies_high16' = (jiffies_high16 + 1) % W16
            /\ TOV1' = FALSE
       ELSE UNCHANGED <<jiffies_high16, TOV1>>
    /\ pc' = "gj_low"
    /\ iters' = iters + 1
    /\ testWraps' = wraps
    /\ UNCHANGED <<i, retTo, low, high, now, SREG_I, TCCR1B, TOIE1, TCNT1, MCUSR, pureVars, scanned,
                   PORT, DDR, connVars, wdt_resets, wraps, sampleWraps, bigUsed, scanHist,
                   passes, ticks>>

\* low = TCNT1
get_jiffies_low ==
    /\ pc = "gj_low"
    /\ ~IrqPending
    /\ low' = TCNT1
    /\ sampleWraps' = wraps
    /\ pc' = "gj_high"
    /\ UNCHANGED <<i, retTo, high, iters, now, hwVars, pureVars, scanned, PORT, DDR, connVars,
                   wdt_resets, wraps, testWraps, bigUsed, scanHist, passes, ticks>>

\* high = jiffies_high16
get_jiffies_high ==
    /\ pc = "gj_high"
    /\ ~IrqPending
    /\ high' = jiffies_high16
    /\ pc' = "gj_recheck"
    /\ UNCHANGED <<i, retTo, low, iters, now, hwVars, pureVars, scanned, PORT, DDR, connVars,
                   wdt_resets, clockHist, scanHist, passes, ticks>>

\* a variant that leaves the loop without looking at TOV1 again
get_jiffies_recheck_once ==
    /\ pc = "gj_recheck"
    /\ ~IrqPending
    /\ pc' = "gj_irq_enable"
    /\ UNCHANGED <<i, retTo, low, high, iters, now, hwVars, pureVars, scanned, PORT, DDR, connVars,
                   wdt_resets, clockHist, scanHist, passes, ticks>>

\* a variant with the test inverted: it leaves the loop when an overflow is
\* pending
get_jiffies_recheck_inverted ==
    /\ pc = "gj_recheck"
    /\ ~IrqPending
    /\ pc' = IF TOV1 THEN "gj_irq_enable" ELSE "gj_pending"
    /\ UNCHANGED <<i, retTo, low, high, iters, now, hwVars, pureVars, scanned, PORT, DDR, connVars,
                   wdt_resets, clockHist, scanHist, passes, ticks>>

\* if (!(TIFR1 & (1 << TOV1))) break; else once more round the loop
get_jiffies_recheck ==
    /\ pc = "gj_recheck"
    /\ ~IrqPending
    /\ pc' = IF ~TOV1 THEN "gj_irq_enable" ELSE "gj_pending"
    /\ UNCHANGED <<i, retTo, low, high, iters, now, hwVars, pureVars, scanned, PORT, DDR, connVars,
                   wdt_resets, clockHist, scanHist, passes, ticks>>

\* irq_enable(); return ((uint32_t)high << 16) | low; the caller stores the
\* result in its `now' and starts its loop at i = 0
get_jiffies_return ==
    /\ pc = "gj_irq_enable"
    /\ ~IrqPending
    /\ SREG_I' = TRUE
    /\ now' = <<high, low>>
    /\ i' = 0
    /\ wdt_resets' = 0
    /\ scanned' = <<>>
    /\ pc' = retTo
    /\ UNCHANGED <<retTo, low, high, iters, TCCR1B, TOIE1, TCNT1, TOV1, jiffies_high16,
                   MCUSR, pureVars, PORT, DDR, connVars, wraps, sampleWraps, testWraps, bigUsed,
                   scanHist, passes, ticks>>

----------------------------------------------------------------------------
(* Outputs *)

\* a variant that forgets OUTPUT_INVERT
output_hw_set_plain(P, o, state) ==
    LET out == output_pin[o]
    IN  [P EXCEPT ![out.output_port] =
            IF state THEN @ \cup {out.output_bit} ELSE @ \ {out.output_bit}]

\* a variant that assigns the bit mask to the port instead of setting or
\* clearing the one bit
output_hw_set_assigns(P, o, state) ==
    LET out == output_pin[o]
        st == IF OUTPUT_INVERT \in out.flags THEN ~state ELSE state
    IN  [P EXCEPT ![out.output_port] = IF st THEN {out.output_bit} ELSE {}]

\* output_hw_set(out, state) on the port registers P
output_hw_set(P, o, state) ==
    LET out == output_pin[o]
        st == IF OUTPUT_INVERT \in out.flags THEN ~state ELSE state
    IN  [P EXCEPT ![out.output_port] =
            IF st THEN @ \cup {out.output_bit} ELSE @ \ {out.output_bit}]

\* a variant that keeps the level as a flag: it stops counting at 1
output_level_inc_saturating(L, P, o) ==
    IF L[o] = 0
    THEN << [L EXCEPT ![o] = 1], output_hw_set(P, o, TRUE), 1 >>
    ELSE << L, P, 0 >>

\* a variant that drives the pin at every increment
output_level_inc_rewrites(L, P, o) ==
    << [L EXCEPT ![o] = (@ + 1) % W8], output_hw_set(P, o, TRUE), 1 >>

\* output_level_inc(out): the new <<level, PORT>> and the number of calls of
\* output_hw_set() made
output_level_inc(L, P, o) ==
    IF L[o] = 0
    THEN << [L EXCEPT ![o] = (@ + 1) % W8], output_hw_set(P, o, TRUE), 1 >>
    ELSE << [L EXCEPT ![o] = (@ + 1) % W8], P, 0 >>

\* a variant that clears the level instead of counting down
output_level_dec_clears(L, P, o) ==
    << [L EXCEPT ![o] = 0], output_hw_set(P, o, FALSE), 1 >>

\* a variant that releases the pin at every decrement
output_level_dec_releases(L, P, o) ==
    << [L EXCEPT ![o] = (@ + W8 - 1) % W8], output_hw_set(P, o, FALSE), 1 >>

\* output_level_dec(out): the new <<level, PORT>> and the number of calls of
\* output_hw_set() made; level is a uint8_t
output_level_dec(L, P, o) ==
    LET l == (L[o] + W8 - 1) % W8
    IN  IF l = 0
        THEN << [L EXCEPT ![o] = l], output_hw_set(P, o, FALSE), 1 >>
        ELSE << [L EXCEPT ![o] = l], P, 0 >>

----------------------------------------------------------------------------
(* setup_ports(), one step per iteration of its loop *)

\* a variant that starts every connection with the dwell time instead of the
\* active time
setup_ports_dwell ==
    /\ pc = "setup_ports_loop"
    /\ ~IrqPending
    /\ IF i < ARRAY_SIZE
       THEN LET conn == Conn(i)
                inp == conn.in
                out == output_pin[conn.out]
                D1 == [DDR EXCEPT ![inp.input_port] = @ \ {inp.input_bit}]
                P1 == [PORT EXCEPT ![inp.input_port] =
                          IF INPUT_PULLUP \in inp.flags
                          THEN @ \cup {inp.input_bit} ELSE @ \ {inp.input_bit}]
            IN  /\ DDR' = [D1 EXCEPT ![out.output_port] = @ \cup {out.output_bit}]
                /\ level' = [level EXCEPT ![conn.out] = 0]
                /\ PORT' = output_hw_set(P1, conn.out, FALSE)
                /\ input_is_asserted' = [input_is_asserted EXCEPT ![i] = FALSE]
                /\ dwell_timeout' = [dwell_timeout EXCEPT ![i] = U32Add(now, DwellTicks)]
                /\ i' = i + 1
                /\ UNCHANGED pc
       ELSE /\ pc' = "main_irq_enable"
            /\ UNCHANGED <<i, DDR, PORT, connVars>>
    /\ UNCHANGED <<retTo, low, high, iters, now, hwVars, pureVars, scanned, wdt_resets, clockHist,
                   scanHist, passes, ticks>>

setup_ports ==
    /\ pc = "setup_ports_loop"
    /\ ~IrqPending
    /\ IF i < ARRAY_SIZE
       THEN LET conn == Conn(i)
                inp == conn.in
                out == output_pin[conn.out]
                D1 == [DDR EXCEPT ![inp.input_port] = @ \ {inp.input_bit}]
                P1 == [PORT EXCEPT ![inp.input_port] =
                          IF INPUT_PULLUP \in inp.flags
                          THEN @ \cup {inp.input_bit} ELSE @ \ {inp.input_bit}]
            IN  /\ DDR' = [D1 EXCEPT ![out.output_port] = @ \cup {out.output_bit}]
                /\ level' = [level EXCEPT ![conn.out] = 0]
                /\ PORT' = output_hw_set(P1, conn.out, FALSE)
                /\ input_is_asserted' = [input_is_asserted EXCEPT ![i] = FALSE]
                /\ dwell_timeout' = [dwell_timeout EXCEPT ![i] = U32Add(now, ActiveTicks)]
                /\ i' = i + 1
                /\ UNCHANGED pc
       ELSE /\ pc' = "main_irq_enable"
            /\ UNCHANGED <<i, DDR, PORT, connVars>>
    /\ UNCHANGED <<retTo, low, high, iters, now, hwVars, pureVars, scanned, wdt_resets, clockHist,
                   scanHist, passes, ticks>>

\* main, after setup_ports(): the reset-cause check is compiled out (#if 0);
\* irq_enable(); scan_input_pins()
main_irq_enable ==
    /\ pc = "main_irq_enable"
    /\ ~IrqPending
    /\ SREG_I' = TRUE
    /\ pc' = "scan_input_pins"
    /\ UNCHANGED <<i, retTo, low, high, iters, now, TCCR1B, TOIE1, TCNT1, TOV1,
                   jiffies_high16, MCUSR, pureVars, scanned, PORT, DDR, connVars, wdt_resets,
                   clockHist, scanHist, passes, ticks>>

----------------------------------------------------------------------------
(* The scan loop *)

\* BITMASK(bitnr), valid for bitnr <= 7
BITMASK(bitnr) == 2 ^ bitnr

\* byte & mask, for a mask of one bit
AndMask(byte, mask) == IF (byte \div mask) % 2 = 1 THEN mask ELSE 0

\* the ! of C on an uint8_t
LogicalNot(v) == IF v = 0 THEN 1 ELSE 0

\* a variant that flips for the pullup alone
hw_input_asserted_pullup_only(flags, pin, bit) ==
    LET hw == AndMask(pin, BITMASK(bit))
    IN  IF INPUT_PULLUP \in flags THEN LogicalNot(hw) ELSE hw

\* the local hw_input_asserted of scan_one_input_pin(), an uint8_t: the
\* masked PIN byte, flipped once if PULLUP xor INVERT
hw_input_asserted_value(flags, pin, bit) ==
    LET hw == AndMask(pin, BITMASK(bit))
    IN  IF (INPUT_PULLUP \in flags) # (INPUT_INVERT \in flags)
        THEN LogicalNot(hw) ELSE hw

\* the same local in the older revision: the masked PIN byte, flipped for
\* PULLUP and then flipped for INVERT
hw_input_asserted_older(flags, pin, bit) ==
    LET hw0 == AndMask(pin, BITMASK(bit))
        hw1 == IF INPUT_PULLUP \in flags THEN LogicalNot(hw0) ELSE hw0
    IN  IF INPUT_INVERT \in flags THEN LogicalNot(hw1) ELSE hw1

\* the logical level of the input of connection c, given whether its pin bit
\* reads set: whether the local hw_input_asserted is nonzero
hw_input_asserted(c, raw) ==
    LET inp == Conn(c).in
        pin == IF raw THEN BITMASK(inp.input_bit) ELSE 0
    IN  hw_input_asserted_value(inp.flags, pin, inp.input_bit) # 0

\* scan_one_input_pin(&connections[i], now); raw is the pin bit it reads
scan_one_input_pin(raw) ==
    /\ pc = "scan_loop"
    /\ ~IrqPending
    /\ i < ARRAY_SIZE
    /\ LET c == i
           o == Conn(c).out
           hw == hw_input_asserted(c, raw)
       IN  IF input_is_asserted[c]
           THEN IF hw
                THEN \* still active: restart the dwell time, wait
                     /\ dwell_timeout' = [dwell_timeout EXCEPT ![c] = U32Add(now, DwellTicks)]
                     /\ lastOp' = [op |-> "restart", hw |-> hw, writes |-> 0]
                     /\ t1' = [t1 EXCEPT ![c] = NoTime]
                     /\ UNCHANGED <<input_is_asserted, level, PORT, t0, highSpan>>
                ELSE \E before \in time_before(now, dwell_timeout[c]) :
                       IF before
                       THEN /\ lastOp' = [op |-> "wait", hw |-> hw, writes |-> 0]
                            /\ t1' = [t1 EXCEPT ![c] = IF @ = NoTime THEN now ELSE @]
                            /\ UNCHANGED <<connVars, PORT, t0, highSpan>>
                       ELSE LET r == output_level_dec(level, PORT, o)
                            IN  /\ input_is_asserted' = [input_is_asserted EXCEPT ![c] = FALSE]
                                /\ level' = r[1]
                                /\ PORT' = r[2]
                                /\ dwell_timeout' = [dwell_timeout EXCEPT ![c] = U32Add(now, ActiveTicks)]
                                /\ lastOp' = [op |-> "dec", hw |-> hw, writes |-> r[3]]
                                /\ t1' = [t1 EXCEPT ![c] = NoTime]
                                /\ UNCHANGED <<t0, highSpan>>
           ELSE IF ~hw
                THEN \* still not active: restart the active time, wait
                     /\ dwell_timeout' = [dwell_timeout EXCEPT ![c] = U32Add(now, ActiveTicks)]
                     /\ lastOp' = [op |-> "restart", hw |-> hw, writes |-> 0]
                     /\ t0' = [t0 EXCEPT ![c] = NoTime]
                     /\ highSpan' = [highSpan EXCEPT ![c] = -1]
                     /\ UNCHANGED <<input_is_asserted, level, PORT, t1>>
                ELSE \E before \in time_before(now, dwell_timeout[c]) :
                       IF before
                       THEN /\ lastOp' = [op |-> "wait", hw |-> hw, writes |-> 0]
                            /\ t0' = [t0 EXCEPT ![c] = IF @ = NoTime THEN now ELSE @]
                            /\ highSpan' = [highSpan EXCEPT ![c] = IF @ < 0 THEN 0 ELSE @]
                            /\ UNCHANGED <<connVars, PORT, t1>>
                       ELSE LET r == output_level_inc(level, PORT, o)
                            IN  /\ input_is_asserted' = [input_is_asserted EXCEPT ![c] = TRUE]
                                /\ level' = r[1]
                                /\ PORT' = r[2]
                                /\ dwell_timeout' = [dwell_timeout EXCEPT ![c] = U32Add(now, DwellTicks)]
                                /\ lastOp' = [op |-> "inc", hw |-> hw, writes |-> r[3]]
                                /\ t0' = [t0 EXCEPT ![c] = NoTime]
                                /\ highSpan' = [highSpan EXCEPT ![c] = -1]
                                /\ UNCHANGED t1
    /\ scanned' = Append(scanned, i)
    /\ pc' = "wdt_reset"
    /\ UNCHANGED <<i, retTo, low, high, iters, now, hwVars, pureVars, DDR, wdt_resets,
                   clockHist, passes, ticks>>

\* a variant whose loop step skips the next connection
wdt_reset_skips ==
    /\ pc = "wdt_reset"
    /\ ~IrqPending
    /\ wdt_resets' = wdt_resets + 1
    /\ i' = i + 2
    /\ pc' = IF i + 2 < ARRAY_SIZE THEN "scan_loop" ELSE "scan_input_pins"
    /\ lastOp' = NoOp
    /\ UNCHANGED <<retTo, low, high, iters, now, hwVars, pureVars, scanned, PORT, DDR,
                   connVars, clockHist, highSpan, t0, t1, passes, ticks>>

\* a variant without the enclosing while (1): one pass, then it returns
wdt_reset_returns ==
    /\ pc = "wdt_reset"
    /\ ~IrqPending
    /\ wdt_resets' = wdt_resets + 1
    /\ i' = i + 1
    /\ pc' = IF i + 1 < ARRAY_SIZE THEN "scan_loop" ELSE "main_end"
    /\ lastOp' = NoOp
    /\ UNCHANGED <<retTo, low, high, iters, now, hwVars, pureVars, scanned, PORT, DDR,
                   connVars, clockHist, highSpan, t0, t1, passes, ticks>>

\* wdt_reset(); i++, and back to the top of while (1) after the last connection
wdt_reset ==
    /\ pc = "wdt_reset"
    /\ ~IrqPending
    /\ wdt_resets' = wdt_resets + 1
    /\ i' = i + 1
    /\ pc' = IF i + 1 < ARRAY_SIZE THEN "scan_loop" ELSE "scan_input_pins"
    /\ lastOp' = NoOp
    /\ UNCHANGED <<retTo, low, high, iters, now, hwVars, pureVars, scanned, PORT, DDR, connVars,
                   clockHist, highSpan, t0, t1, passes, ticks>>

----------------------------------------------------------------------------
(* The program with its environment *)

Next ==
    \/ MainStart
    \/ setup_jiffies
    \/ get_jiffies_irq_disable
    \/ get_jiffies_pending
    \/ get_jiffies_low
    \/ get_jiffies_high
    \/ get_jiffies_recheck
    \/ get_jiffies_return
    \/ setup_ports
    \/ main_irq_enable
    \/ \E raw \in BOOLEAN : scan_one_input_pin(raw)
    \/ wdt_reset
    \/ TIMER1_OVF_vect
    \/ \E d \in TickSteps : Tick(d)

Spec == Init /\ [][Next]_vars

\* the steps of the polling thread (main and what it calls)
PollingThread ==
    \/ MainStart
    \/ setup_jiffies
    \/ get_jiffies_irq_disable
    \/ get_jiffies_pending
    \/ get_jiffies_low
    \/ get_jiffies_high
    \/ get_jiffies_recheck
    \/ get_jiffies_return
    \/ setup_ports
    \/ main_irq_enable
    \/ \E raw \in BOOLEAN : scan_one_input_pin(raw)
    \/ wdt_reset

\* The CPU keeps executing: the polling thread takes its next step unless an
\* interrupt is pending, and a pending enabled interrupt is served.
SpecLive ==
    /\ Init
    /\ [][Next]_vars
    /\ WF_vars(PollingThread)
    /\ WF_vars(TIMER1_OVF_vect)

\* the same program booting after a watchdog or a brown-out reset
InitFault ==
    \E cause \in FaultCauses :
        /\ pc = "main"
        /\ i = 0
        /\ retTo = "none"
        /\ low = 0
        /\ high = 0
        /\ iters = 0
        /\ now = Zero32
        /\ SREG_I = FALSE
        /\ TCCR1B = 0
        /\ TOIE1 = FALSE
        /\ TCNT1 = 0
        /\ TOV1 = FALSE
        /\ jiffies_high16 = 0
        /\ MCUSR = cause
        /\ PORT = [p \in Ports |-> {}]
        /\ DDR = [p \in Ports |-> {}]
        /\ input_is_asserted = [c \in Conns |-> FALSE]
        /\ dwell_timeout = [c \in Conns |-> Zero32]
        /\ level = [o \in Outputs |-> 0]
        /\ wdt_resets = 0
        /\ wraps = 0
        /\ sampleWraps = 0
        /\ testWraps = 0
        /\ bigUsed = FALSE
        /\ highSpan = [c \in Conns |-> -1]
        /\ t0 = [c \in Conns |-> NoTime]
        /\ t1 = [c \in Conns |-> NoTime]
        /\ lastOp = NoOp
        /\ passes = 0
        /\ ticks = 0
        /\ scanned = <<>>
        /\ ta_a = Zero32
        /\ ta_b = Zero32
        /\ ta_after = {}
        /\ ta_before = {}
        /\ InputIdle
        /\ EngineIdle

SpecFault == InitFault /\ [][Next]_vars

----------------------------------------------------------------------------
(* The ordering macros taken alone: time_after(a, b) and time_before(a, b)
   evaluated once each on a pair of sample ticks *)

\* anchors of the sample ticks: 0 (the 0xFFFFFFFF -> 0 wrap), 2^30, and
\* 2^31 (the 0x7FFFFFFF -> 0x80000000 sign boundary)
TickAnchors == {<<0, 0>>, <<16384, 0>>, <<32768, 0>>}

\* the sample ticks: every word within MaxOffset of an anchor, on both sides
Ticks32 ==
    {U32Add(U32Sub(x, U32(MaxOffset)), k) : x \in TickAnchors, k \in 0 .. (2 * MaxOffset)}

progVars == <<pc, i, retTo, low, high, iters, now, hwVars, PORT, DDR, connVars,
              wdt_resets, clockHist, scanHist, passes, ticks, scanned>>

InitTime ==
    /\ ta_a \in Ticks32
    /\ ta_b \in Ticks32
    /\ ta_after = {}
    /\ ta_before = {}
    /\ InputIdle
    /\ EngineIdle
    /\ pc = "macros"
    /\ i = 0
    /\ retTo = "none"
    /\ low = 0
    /\ high = 0
    /\ iters = 0
    /\ now = Zero32
    /\ SREG_I = FALSE
    /\ TCCR1B = 0
    /\ TOIE1 = FALSE
    /\ TCNT1 = 0
    /\ TOV1 = FALSE
    /\ jiffies_high16 = 0
    /\ MCUSR = {"PORF"}
    /\ PORT = [p \in Ports |-> {}]
    /\ DDR = [p \in Ports |-> {}]
    /\ input_is_asserted = [c \in Conns |-> FALSE]
    /\ dwell_timeout = [c \in Conns |-> Zero32]
    /\ level = [o \in Outputs |-> 0]
    /\ wdt_resets = 0
    /\ wraps = 0
    /\ sampleWraps = 0
    /\ testWraps = 0
    /\ bigUsed = FALSE
    /\ highSpan = [c \in Conns |-> -1]
    /\ t0 = [c \in Conns |-> NoTime]
    /\ t1 = [c \in Conns |-> NoTime]
    /\ lastOp = NoOp
    /\ passes = 0
    /\ ticks = 0
    /\ scanned = <<>>

\* one evaluation of time_after(a, b)
eval_time_after ==
    /\ pc = "macros"
    /\ ta_after = {}
    /\ ta_after' \in {{r} : r \in time_after(ta_a, ta_b)}
    /\ UNCHANGED <<progVars, inVars, engVars, ta_a, ta_b, ta_before>>

\* one evaluation of time_before(a, b)
eval_time_before ==
    /\ pc = "macros"
    /\ ta_before = {}
    /\ ta_before' \in {{r} : r \in time_before(ta_a, ta_b)}
    /\ UNCHANGED <<progVars, inVars, engVars, ta_a, ta_b, ta_after>>

NextTime ==
    \/ eval_time_after
    \/ eval_time_before

SpecTime == InitTime /\ [][NextTime]_vars

----------------------------------------------------------------------------
(* The reading of an input pin taken alone: the local hw_input_asserted of
   both revisions of scan_one_input_pin(), computed once each for one PIN
   byte, one bit number and one set of flags *)

\* the program at reset, not running
ProgramIdle ==
    /\ i = 0
    /\ retTo = "none"
    /\ low = 0
    /\ high = 0
    /\ iters = 0
    /\ now = Zero32
    /\ SREG_I = FALSE
    /\ TCCR1B = 0
    /\ TOIE1 = FALSE
    /\ TCNT1 = 0
    /\ TOV1 = FALSE
    /\ jiffies_high16 = 0
    /\ MCUSR = {"PORF"}
    /\ PORT = [p \in Ports |-> {}]
    /\ DDR = [p \in Ports |-> {}]
    /\ input_is_asserted = [c \in Conns |-> FALSE]
    /\ dwell_timeout = [c \in Conns |-> Zero32]
    /\ level = [o \in Outputs |-> 0]
    /\ wdt_resets = 0
    /\ wraps = 0
    /\ sampleWraps = 0
    /\ testWraps = 0
    /\ bigUsed = FALSE
    /\ highSpan = [c \in Conns |-> -1]
    /\ t0 = [c \in Conns |-> NoTime]
    /\ t1 = [c \in Conns |-> NoTime]
    /\ lastOp = NoOp
    /\ passes = 0
    /\ ticks = 0
    /\ scanned = <<>>

InitInput ==
    /\ pc = "input"
    /\ ProgramIdle
    /\ ta_a = Zero32
    /\ ta_b = Zero32
    /\ ta_after = {}
    /\ ta_before = {}
    /\ in_flags \in SUBSET {INPUT_PULLUP, INPUT_INVERT}
    /\ in_pin \in 0 .. (W8 - 1)
    /\ in_bit \in 0 .. 7
    /\ in_cur = {}
    /\ in_old = {}
    /\ EngineIdle

\* the reading as scan_one_input_pin() computes it
eval_hw_input_asserted ==
    /\ pc = "input"
    /\ in_cur = {}
    /\ in_cur' = {hw_input_asserted_value(in_flags, in_pin, in_bit)}
    /\ UNCHANGED <<progVars, taVars, engVars, in_flags, in_pin, in_bit, in_old>>

\* the reading as the older revision of scan_one_input_pin() computes it
eval_hw_input_asserted_older ==
    /\ pc = "input"
    /\ in_old = {}
    /\ in_old' = {hw_input_asserted_older(in_flags, in_pin, in_bit)}
    /\ UNCHANGED <<progVars, taVars, engVars, in_flags, in_pin, in_bit, in_cur>>

NextInput ==
    \/ eval_hw_input_asserted
    \/ eval_hw_input_asserted_older

SpecInput == InitInput /\ [][NextInput]_vars

----------------------------------------------------------------------------
(* The debounce engine taken alone: scan_one_input_pin() run on two copies of
   connection 0, set up as setup_ports() sets it up. Both copies read the
   same normalized input at every scan; the second copy has its initial
   dwell_timeout and every now shifted by eng_k. The clock runs on between
   the scans and wraps through 2^32. Both copies run the same build of the
   program, whichever it is. *)

\* the connection that is copied, and its output
EngineConn == 0
EngineOut == Conn(EngineConn).out

\* the clock at setup_ports(): 0 and 0x70000000
EngineStarts == {Zero32, <<28672, 0>>}

\* the shifts of the second copy: 1, 2^30 and 2^31 ticks
EngineShifts == {<<0, 1>>, <<16384, 0>>, <<32768, 0>>}

\* the long step of the clock between two scans: 2^28 ticks
EngineStride == 4096 * W16

\* the code the compiler may emit for (int32_t)a - (int32_t)b < 0 without
\* -fwrapv: the subtraction in two's complement and a test of the sign, or
\* the signed comparison a < b
Builds == {"subtracts", "compares"}

\* time_before(a, b) as one build evaluates it: the defined result where
\* the subtraction stays in range, the emitted code's result where it
\* overflows
time_before_built(build, a, b) ==
    IF SubOverflows(a, b)
    THEN IF build = "subtracts" THEN S32(U32Sub(a, b)) < 0 ELSE S32(a) < S32(b)
    ELSE \A r \in time_before(a, b) : r

\* a connection as setup_ports() leaves it at now = n
SetUpAt(n) ==
    [asserted |-> FALSE,
     dl |-> U32Add(n, ActiveTicks),
     L |-> [o \in Outputs |-> 0],
     P |-> output_hw_set([p \in Ports |-> {}], EngineOut, FALSE)]

\* scan_one_input_pin(conn, now = n) on the copy st of the connection, with
\* the normalized input hw, in the given build: the copy it leaves
scan_one_input_pin_on(build, st, hw, n) ==
    IF st.asserted
    THEN IF hw
         THEN [st EXCEPT !.dl = U32Add(n, DwellTicks)]
         ELSE IF time_before_built(build, n, st.dl)
              THEN st
              ELSE LET r == output_level_dec(st.L, st.P, EngineOut)
                   IN  [asserted |-> FALSE, dl |-> U32Add(n, ActiveTicks),
                        L |-> r[1], P |-> r[2]]
    ELSE IF ~hw
         THEN [st EXCEPT !.dl = U32Add(n, ActiveTicks)]
         ELSE IF time_before_built(build, n, st.dl)
              THEN st
              ELSE LET r == output_level_inc(st.L, st.P, EngineOut)
                   IN  [asserted |-> TRUE, dl |-> U32Add(n, DwellTicks),
                        L |-> r[1], P |-> r[2]]

InitEngine ==
    /\ pc = "engine"
    /\ ProgramIdle
    /\ ta_a = Zero32
    /\ ta_b = Zero32
    /\ ta_after = {}
    /\ ta_before = {}
    /\ InputIdle
    /\ eng_now \in EngineStarts
    /\ eng_k \in EngineShifts
    /\ eng_a = SetUpAt(eng_now)
    /\ eng_b = SetUpAt(U32Plus(eng_now, eng_k))
    /\ eng_hw = FALSE
    /\ eng_ticks = 0
    /\ eng_build \in Builds

\* one scan of both copies, the clock having advanced by d ticks since the
\* last one
engine_scan(hw, d) ==
    /\ pc = "engine"
    /\ LET n == U32Add(eng_now, d)
       IN  /\ eng_now' = n
           /\ eng_a' = scan_one_input_pin_on(eng_build, eng_a, hw, n)
           /\ eng_b' = scan_one_input_pin_on(eng_build, eng_b, hw, U32Plus(n, eng_k))
    /\ eng_hw' = hw
    /\ UNCHANGED <<progVars, taVars, inVars, eng_k, eng_build>>

\* a scan a short time after the last one
engine_scan_soon ==
    /\ eng_ticks < MaxTicks
    /\ eng_ticks' = eng_ticks + 1
    /\ \E hw \in BOOLEAN : engine_scan(hw, ActiveTicks)

\* a scan a long time after the last one
engine_scan_late ==
    /\ UNCHANGED eng_ticks
    /\ \E hw \in BOOLEAN : engine_scan(hw, EngineStride)

NextEngine ==
    \/ engine_scan_soon
    \/ engine_scan_late

SpecEngine == InitEngine /\ [][NextEngine]_vars

\* the scan loop never ends and the clock never stops
SpecEngineLive == SpecEngine /\ WF_vars(NextEngine)

TypeOK ==
    /\ TCNT1 \in 0 .. (W16 - 1)
    /\ jiffies_high16 \in 0 .. (W16 - 1)
    /\ \A o \in Outputs : level[o] \in 0 .. (W8 - 1)

----------------------------------------------------------------------------
(* Vocabulary of the properties *)

GjPcs == {"gj_pending", "gj_low", "gj_high", "gj_recheck", "gj_irq_enable"}

\* setup_ports() has returned
AfterSetup ==
    \/ pc \in {"main_irq_enable", "scan_input_pins", "scan_loop", "wdt_reset"}
    \/ pc \in GjPcs /\ retTo = "scan_loop"

\* the polling thread is in scan_input_pins()
InScan ==
    \/ pc \in {"scan_input_pins", "scan_loop", "wdt_reset"}
    \/ pc \in GjPcs /\ retTo = "scan_loop"

\* the connections that reference output o
ConnsOf(o) == {c \in Conns : Conn(c).out = o}

\* the connections of output o that are Asserted
AssertedOf(o) == {c \in ConnsOf(o) : input_is_asserted[c]}

\* the port bit of output o is 1
PortBit(o) == output_pin[o].output_bit \in PORT[output_pin[o].output_port]

\* the pin of output o is at its asserted (driven) level
Driven(o) == PortBit(o) # (OUTPUT_INVERT \in output_pin[o].flags)

\* scan_one_input_pin() has just run for connection i
JustScanned == pc = "wdt_reset"

----------------------------------------------------------------------------
(* Properties *)

\* C1: after setup_ports() and between calls of scan_one_input_pin(), the
\* level of every output equals the number of connections that point to it
\* and are Asserted.
C1_LevelCountsAsserted ==
    AfterSetup => \A o \in Outputs : level[o] = Cardinality(AssertedOf(o))

\* C1 witness: two connections of one output have been Asserted by scans.
C1_Witness ==
    /\ JustScanned
    /\ lastOp.op = "inc"
    /\ \E o \in Outputs : Cardinality(AssertedOf(o)) = 2 /\ level[o] = 2

\* C2: after setup_ports() and between calls of scan_one_input_pin(), the
\* port bit of every output is 1 exactly when (level > 0) xor OUTPUT_INVERT.
C2_PinFollowsLevel ==
    AfterSetup =>
        \A o \in Outputs :
            PortBit(o) <=> ((level[o] > 0) # (OUTPUT_INVERT \in output_pin[o].flags))

\* C2 witness: an inverted output is driven (bit 0) and a plain output is
\* driven (bit 1) after scans raised their levels.
C2_Witness ==
    /\ JustScanned
    /\ \E o \in Outputs :
          OUTPUT_INVERT \in output_pin[o].flags /\ level[o] > 0 /\ ~PortBit(o)
    /\ \E o \in Outputs :
          OUTPUT_INVERT \notin output_pin[o].flags /\ level[o] > 0 /\ PortBit(o)

\* C3: output_level_dec() is never called at level 0, so the 8-bit level of
\* an output never wraps to 255.
C3_LevelNeverWraps ==
    \A o \in Outputs : level[o] # W8 - 1

\* C3 witness: a scan has just decremented the level of its output to 0.
C3_Witness ==
    /\ JustScanned
    /\ lastOp.op = "dec"
    /\ level[Conn(i).out] = 0

\* C4: the value get_jiffies() returns is the number of counter wraps at the
\* moment of its last TCNT1 sample, times 2^16, plus that sample.
C4_NotTorn ==
    (pc \notin GjPcs /\ retTo # "none") => now = <<sampleWraps, low>>

\* C4 witness: get_jiffies() has returned after a second round of its loop,
\* the counter having wrapped during the call.
C4_Witness ==
    /\ pc = "scan_loop"
    /\ iters = 2
    /\ now = <<sampleWraps, low>>
    /\ sampleWraps > 0

\* C5: a later get_jiffies() sample is never before the earlier one:
\* time_before(later, earlier) is false whenever fewer than 2^31 ticks lie
\* between the two samples.
C5_SamplesInOrder ==
    [][(/\ pc = "gj_irq_enable"
        /\ pc' = "scan_loop"
        /\ U32Sub(now', now)[1] < 32768)
       => time_before(now', now) = {FALSE}]_vars

\* the step is scan_one_input_pin() on connection c
ScanStep(c) == pc = "scan_loop" /\ pc' = "wdt_reset" /\ i = c

\* at least n ticks lie between the clock values from and to
ElapsedAtLeast(from, to, n) == ~U32Less(U32Sub(to, from), U32(n))

\* C6: an input that is asserted for only 50 us never makes a Deasserted
\* connection Asserted and never changes the level or the pin of its output,
\* whenever the scans happen: no scan that reads the input high within 50 us
\* of the first high read of the pulse asserts the connection.
C6_PulseRejected ==
    [][\A c \in Conns :
          (/\ ScanStep(c)
           /\ ~input_is_asserted[c]
           /\ lastOp'.hw
           /\ highSpan[c] <= PulseTicks)
          => /\ ~input_is_asserted'[c]
             /\ level' = level
             /\ PORT' = PORT]_vars

\* C7: a Deasserted connection whose input is first seen asserted at the
\* scan with clock value t0, and at every scan since, becomes Asserted at
\* the first scan whose now is at or after t0 + active time and at no
\* earlier scan, and the level of its output is incremented at that scan only.
C7_AssertTiming ==
    [][\A c \in Conns :
          (ScanStep(c) /\ ~input_is_asserted[c] /\ lastOp'.hw)
          => LET first == IF t0[c] = NoTime THEN now ELSE t0[c]
                 due == ElapsedAtLeast(first, now, ActiveTicks)
                 o == Conn(c).out
             IN  /\ input_is_asserted'[c] <=> due
                 /\ level'[o] = IF due THEN level[o] + 1 ELSE level[o]]_vars

\* C8: an Asserted connection whose input is first seen deasserted at the
\* scan with clock value t1, and at every scan since, stays Asserted (its
\* output driven if it is the only asserter) at every scan whose now is
\* before t1 + dwell time, and becomes Deasserted at the first scan at or
\* after it, where the level of its output is decremented once.
C8_DwellTiming ==
    [][\A c \in Conns :
          (ScanStep(c) /\ input_is_asserted[c] /\ ~lastOp'.hw)
          => LET first == IF t1[c] = NoTime THEN now ELSE t1[c]
                 due == ElapsedAtLeast(first, now, DwellTicks)
                 o == Conn(c).out
             IN  IF due
                 THEN ~input_is_asserted'[c] /\ level'[o] = level[o] - 1
                 ELSE /\ input_is_asserted'[c]
                      /\ level'[o] = level[o]
                      /\ (AssertedOf(o) = {c} => Driven(o)')]_vars

\* the outputs that two connections share
SharedOutputs == {o \in Outputs : Cardinality(ConnsOf(o)) = 2}

\* C9: for two connections on one output: while exactly one is Asserted the
\* level is 1 and the pin is driven, while both are Asserted the pin is
\* driven, and the pin is released, with level 0, only when both are
\* Deasserted.
C9_SharedOutputOr ==
    AfterSetup =>
        \A o \in SharedOutputs :
            /\ Cardinality(AssertedOf(o)) = 1 => (level[o] = 1 /\ Driven(o))
            /\ Cardinality(AssertedOf(o)) = 2 => Driven(o)
            /\ Cardinality(AssertedOf(o)) = 0 => (level[o] = 0 /\ ~Driven(o))

\* C9 witness: a scan has just deasserted one of two connections of an
\* output while the other is still Asserted, and the pin is still driven.
C9_Witness ==
    /\ JustScanned
    /\ lastOp.op = "dec"
    /\ Conn(i).out \in SharedOutputs
    /\ Cardinality(AssertedOf(Conn(i).out)) = 1
    /\ level[Conn(i).out] = 1
    /\ Driven(Conn(i).out)

\* C10: after a watchdog or brown-out reset (and no power-on reset) the
\* program halts before the scan loop: scan_input_pins() is never entered.
C10_FaultHalts ==
    (MCUSR \in FaultCauses) => ~InScan

\* both macros have been evaluated on the pair <<ta_a, ta_b>>
Evaluated == ta_after # {} /\ ta_before # {}

\* the macro answered true
Yes(r) == r = {TRUE}

\* the circular distance of a and b is below 2^31
Near(a, b) == U32Sub(a, b)[1] < 32768 \/ U32Sub(b, a)[1] < 32768

\* a is the later tick: a - b modulo 2^32 lies in 1 .. 2^31 - 1
Later(a, b) == a # b /\ U32Sub(a, b)[1] < 32768

ExactlyOne(x, y, z) == (x /\ ~y /\ ~z) \/ (~x /\ y /\ ~z) \/ (~x /\ ~y /\ z)

\* C11: for ticks a and b at circular distance below 2^31, exactly one of
\* time_after(a, b), time_after(b, a) and a == b holds, and time_after(a, b)
\* is true exactly when a is the later tick, across the 0xFFFFFFFF -> 0 wrap
\* and across the 0x7FFFFFFF -> 0x80000000 sign boundary.
C11_Trichotomy ==
    (Evaluated /\ Near(ta_a, ta_b)) =>
        /\ ExactlyOne(Yes(ta_after), Yes(ta_before), ta_a = ta_b)
        /\ Yes(ta_after) <=> Later(ta_a, ta_b)

after_specified(a, b) == S32(U32Sub(b, a)) < 0

\* C20: time_after(a, b) as coded gives the same result as the specified
\* (int32)(b - a) < 0 for every pair of 32-bit values, also where the signed
\* subtraction of the casts leaves the int32 range.
C20_CodedIsSpecified ==
    (ta_after # {}) => (Yes(ta_after) = after_specified(ta_a, ta_b))

\* C13: the pin is written only on edges of the count: an increment calls
\* output_hw_set() only when the level goes 0 -> 1, a decrement only when it
\* goes 1 -> 0, any other increment or decrement leaves the port untouched,
\* and a scan writes the pin exactly once when it changes (level > 0) and
\* not at all otherwise; nothing else in the scan loop touches the port.
C13_PinWrittenOnEdges ==
    [][/\ \A c \in Conns :
            ScanStep(c) =>
              LET o == Conn(c).out
                  edge == (level'[o] > 0) # (level[o] > 0)
              IN  /\ lastOp'.op = "inc" => lastOp'.writes = (IF level[o] = 0 THEN 1 ELSE 0)
                  /\ lastOp'.op = "dec" => lastOp'.writes = (IF level[o] = 1 THEN 1 ELSE 0)
                  /\ lastOp'.writes = (IF edge THEN 1 ELSE 0)
                  /\ ~edge => PORT' = PORT
                  /\ edge => (Driven(o)' <=> level'[o] > 0)
       /\ (InScan /\ pc # "scan_loop") => PORT' = PORT]_vars

\* C13 witness: a scan has incremented a level that was already above 0
\* (1 -> 2) without a call of output_hw_set().
C13_Witness ==
    /\ JustScanned
    /\ lastOp.op = "inc"
    /\ lastOp.writes = 0
    /\ level[Conn(i).out] = 2
    /\ Driven(Conn(i).out)

\* the first n connections in table order
InOrder(n) == [k \in 1 .. n |-> k - 1]

\* C14: each pass of scan_input_pins() scans every connection exactly once,
\* in the index order of the table, with exactly one wdt_reset() after each
\* connection's scan and before the next; none is skipped or scanned twice.
C14_PassScansAllInOrder ==
    /\ pc = "scan_loop" =>
          (i < ARRAY_SIZE /\ scanned = InOrder(i) /\ wdt_resets = i)
    /\ pc = "wdt_reset" =>
          (i < ARRAY_SIZE /\ scanned = InOrder(i + 1) /\ wdt_resets = i)
    /\ (pc = "scan_input_pins" /\ passes > 0) =>
          (scanned = InOrder(ARRAY_SIZE) /\ wdt_resets = ARRAY_SIZE)

\* C14 witness: the second pass has just ended, having scanned the whole
\* table in order with one wdt_reset() per connection.
C14_Witness ==
    /\ pc = "scan_input_pins"
    /\ passes >= 2
    /\ Len(scanned) >= 3
    /\ scanned = InOrder(ARRAY_SIZE)
    /\ wdt_resets = ARRAY_SIZE

\* C15: once main() has reached scan_input_pins(), the scan loop neither
\* ends nor blocks, however the overflow interrupt interleaves: from then
\* on every connection is scanned again and again, and wdt_reset() is
\* called again and again.
C15_ScansForever ==
    /\ \A c \in Conns : InScan ~> (JustScanned /\ i = c)
    /\ InScan ~> (pc = "wdt_reset")
    /\ (pc = "wdt_reset") ~> (pc # "wdt_reset" /\ wdt_resets > 0)

\* C15 witness: the last connection of the table has been scanned in a pass
\* later than the counted ones, after the overflow interrupt has run between
\* passes.
C15_Witness ==
    /\ JustScanned
    /\ i = ARRAY_SIZE - 1
    /\ passes = MaxPasses
    /\ Len(scanned) = ARRAY_SIZE
    /\ wraps > 0
    /\ jiffies_high16 = wraps
    /\ ~TOV1

\* the step is one execution of the overflow interrupt handler: an enabled
\* pending overflow is taken (nothing else clears TOV1 while SREG I is set)
IsrStep == SREG_I /\ TOIE1 /\ TOV1 /\ ~TOV1'

\* C16: each execution of the TIMER1 overflow handler adds exactly one to
\* jiffies_high16, modulo 2^16, and changes nothing else: no connection
\* state, deadline, output level or port bit, no register of the timer, and
\* nothing of the interrupted polling code (its position, its locals, the
\* interrupt enable bit it runs with).
C16_IsrAddsOneOnly ==
    [][IsrStep =>
        /\ jiffies_high16' = (jiffies_high16 + 1) % W16
        /\ UNCHANGED <<input_is_asserted, dwell_timeout, level, PORT, DDR>>
        /\ UNCHANGED <<pc, i, retTo, low, high, now, wdt_resets, scanned>>
        /\ UNCHANGED <<SREG_I, TCCR1B, TOIE1, TCNT1, MCUSR>>]_vars

\* C16 witness: between two passes the handler has run with the low byte of
\* jiffies_high16 at 0xFF, carrying into the high byte (0x7FFF -> 0x8000).
C16_Witness ==
    /\ pc = "scan_input_pins"
    /\ SREG_I
    /\ ~TOV1
    /\ sampleWraps # wraps
    /\ jiffies_high16 = wraps
    /\ jiffies_high16 = 32768

\* before(a, b) as specified: after(b, a), on the 32-bit unsigned difference
before_specified(a, b) == after_specified(b, a)

\* C17: scan_one_input_pin() on a Deasserted connection: with the input
\* false, dwell_timeout becomes now + active time and state and level stay;
\* with the input true and now not before dwell_timeout (now == dwell_timeout
\* included), the connection becomes Asserted, the level of its output goes
\* up by exactly one and dwell_timeout becomes now + dwell time.
C17_DeassertedScan ==
    [][\A c \in Conns :
          (ScanStep(c) /\ ~input_is_asserted[c]) =>
            LET o == Conn(c).out
                hw == lastOp'.hw
            IN  /\ ~hw => /\ dwell_timeout'[c] = U32Add(now, ActiveTicks)
                          /\ ~input_is_asserted'[c]
                          /\ level' = level
                /\ (hw /\ ~before_specified(now, dwell_timeout[c])) =>
                          /\ input_is_asserted'[c]
                          /\ level'[o] = level[o] + 1
                          /\ dwell_timeout'[c] = U32Add(now, DwellTicks)]_vars

\* C18: scan_one_input_pin() on an Asserted connection: with the input true,
\* dwell_timeout becomes now + dwell time and state and level stay; with the
\* input false and now not before dwell_timeout (now == dwell_timeout
\* included), the connection becomes Deasserted, the level of its output
\* goes down by exactly one and dwell_timeout becomes now + active time.
C18_AssertedScan ==
    [][\A c \in Conns :
          (ScanStep(c) /\ input_is_asserted[c]) =>
            LET o == Conn(c).out
                hw == lastOp'.hw
            IN  /\ hw => /\ dwell_timeout'[c] = U32Add(now, DwellTicks)
                         /\ input_is_asserted'[c]
                         /\ level' = level
                /\ (~hw /\ ~before_specified(now, dwell_timeout[c])) =>
                         /\ ~input_is_asserted'[c]
                         /\ level'[o] = level[o] - 1
                         /\ dwell_timeout'[c] = U32Add(now, ActiveTicks)]_vars

\* C19: when the input contradicts the state of the connection and now is
\* before dwell_timeout, scan_one_input_pin() changes nothing:
\* input_is_asserted, dwell_timeout, the levels and the port are as before.
C19_WaitChangesNothing ==
    [][\A c \in Conns :
          (/\ ScanStep(c)
           /\ lastOp'.hw # input_is_asserted[c]
           /\ before_specified(now, dwell_timeout[c]))
          => UNCHANGED <<input_is_asserted, dwell_timeout, level, PORT>>]_vars

\* setup_ports() has just returned
SetupDone == pc = "main_irq_enable"

\* C21: when setup_ports() returns, every connection is Deasserted, every
\* referenced output has level 0 and its port bit at the deasserted level
\* (0 xor OUTPUT_INVERT), and the dwell_timeout of every connection is the one
\* now that setup_ports() sampled plus the active time.
C21_SetupPortsResult ==
    SetupDone =>
        \A c \in Conns :
            /\ ~input_is_asserted[c]
            /\ level[Conn(c).out] = 0
            /\ PortBit(Conn(c).out) = (OUTPUT_INVERT \in output_pin[Conn(c).out].flags)
            /\ dwell_timeout[c] = U32Add(now, ActiveTicks)

\* C21 witness: setup_ports() has returned, having sampled the clock after
\* it had advanced, and the port holds a 1 for an inverted output.
C21_Witness ==
    /\ SetupDone
    /\ now # Zero32
    /\ \A c \in Conns : dwell_timeout[c] = U32Add(now, ActiveTicks)
    /\ \E o \in Outputs : OUTPUT_INVERT \in output_pin[o].flags /\ PortBit(o)

\* the pin bit of the reading is set in the PIN byte
RawBit == (in_pin \div (2 ^ in_bit)) % 2 = 1

\* raw xor PULLUP xor INVERT
NormalisedLevel == (RawBit # (INPUT_PULLUP \in in_flags)) # (INPUT_INVERT \in in_flags)

\* C22: for all eight combinations of raw pin level, INPUT_PULLUP and
\* INPUT_INVERT, the logical input level scan_one_input_pin() computes is
\* raw xor PULLUP xor INVERT, and the single conditional flip of the current
\* revision and the two successive flips of the older one give the same
\* logical level.
C22_InputNormalised ==
    /\ \A v \in in_cur : (v # 0) = NormalisedLevel
    /\ \A v \in in_cur : \A w \in in_old : (v # 0) = (w # 0)

\* C22 witness: both revisions have computed the level of a set bit 7 with
\* both flags: the current one keeps the masked byte, the older one flips
\* it twice.
C22_Witness ==
    /\ in_flags = {INPUT_PULLUP, INPUT_INVERT}
    /\ in_bit = 7
    /\ RawBit
    /\ in_cur = {128}
    /\ in_old = {1}

\* get_jiffies() is at the re-check of TOV1 that ends round n of its loop
AtRecheck(n) == pc = "gj_recheck" /\ iters = n

\* C23 as stated: the first round of the loop of get_jiffies() ends the loop
\* when no overflow became pending between the read of the low word and the
\* re-check.
C23_FirstRoundExits ==
    (AtRecheck(1) /\ wraps = sampleWraps) => ~TOV1

\* C23, amended: every call of get_jiffies() returns; its loop runs at most
\* twice (wraps being further apart than one round), the second round always
\* ends it, and the first round ends it when no overflow became pending
\* between the test of TOV1 at the top of the loop and the re-check.
C23_LoopBounded ==
    /\ [](pc \in GjPcs => iters <= 2)
    /\ []((AtRecheck(1) /\ wraps = testWraps) => ~TOV1)
    /\ [](AtRecheck(2) => ~TOV1)
    /\ (pc \in GjPcs) ~> (pc \notin GjPcs)

\* C23 witness: the loop has ended in its second round, the counter having
\* wrapped during the first round and not since the second test of TOV1.
C23_Witness ==
    /\ pc = "gj_irq_enable"
    /\ iters = 2
    /\ wraps = testWraps
    /\ wraps > 0
    /\ ~TOV1

\* the wraps of the counter that jiffies_high16 has not counted yet
Uncounted == IF TOV1 THEN 1 ELSE 0

\* C24: every wrap of the 16-bit counter is counted in jiffies_high16 exactly
\* once, by the overflow handler or by the pending-flag path of get_jiffies():
\* at every moment jiffies_high16 is the number of wraps so far (modulo 2^16)
\* less the one wrap that is still pending in TOV1, in every interleaving
\* with at most one wrap while interrupts are masked.
C24_WrapCountedOnce ==
    wraps = (jiffies_high16 + Uncounted) % W16

\* C24 witness: the handler has counted the wraps of the long idle period
\* and the pending-flag path, in the second round of the loop of
\* get_jiffies(), the wrap that happened during the call.
C24_Witness ==
    /\ pc = "gj_low"
    /\ iters = 2
    /\ ~TOV1
    /\ bigUsed
    /\ wraps = testWraps
    /\ jiffies_high16 = wraps
    /\ wraps > 1

\* the larger of the two timeouts, in ticks
MaxTimeoutTicks == IF ActiveTicks > DwellTicks THEN ActiveTicks ELSE DwellTicks

\* deadline is ahead of n by at least 1 and at most MaxTimeoutTicks ticks
AheadOf(deadline, n) ==
    LET x == U32Sub(deadline, n)
    IN  x # Zero32 /\ U32Leq(x, U32(MaxTimeoutTicks))

\* C25: after setup_ports() and after every scan_one_input_pin(conn, now),
\* (conn->dwell_timeout - now) mod 2^32 lies in 1 .. max(active ticks, dwell
\* ticks): the deadline is strictly ahead of that now by at most the larger
\* timeout.
C25_DeadlineAhead ==
    /\ SetupDone => \A c \in Conns : AheadOf(dwell_timeout[c], now)
    /\ JustScanned => AheadOf(dwell_timeout[i], now)

\* the pin of output o is at its asserted (driven) level in the port P
DrivenIn(P, o) ==
    (output_pin[o].output_bit \in P[output_pin[o].output_port])
        # (OUTPUT_INVERT \in output_pin[o].flags)

\* C26: if the normalized input of a connection is asserted at every scan
\* from some scan onward, while the scan loop keeps running and the clock
\* keeps advancing, the connection eventually becomes Asserted and stays
\* Asserted, and its output is eventually driven and stays driven.
C26_EventuallyAsserted ==
    (<>[]eng_hw) => <>[](eng_a.asserted /\ DrivenIn(eng_a.P, EngineOut))

\* C29: the debounce engine is independent of the clock epoch: two copies of
\* a connection scanned with the same normalized input, the second with its
\* initial dwell_timeout and every now shifted by k modulo 2^32, go through
\* the same states and the same changes of the output level, also when now
\* or now + timeout wraps through 2^32 or crosses 2^31.
C29_EpochIndependent ==
    /\ eng_b.asserted = eng_a.asserted
    /\ eng_b.L = eng_a.L
    /\ eng_b.P = eng_a.P
    /\ eng_b.dl = U32Plus(eng_a.dl, eng_k)

\* main() has called get_jiffies() from setup_ports() and has not reached its
\* own irq_enable() yet
InSetupAfterClockRead == pc \in {"setup_ports_loop", "main_irq_enable"}

\* C27: get_jiffies() leaves the global interrupt enable as it found it:
\* called from setup_ports() with interrupts disabled it returns with
\* interrupts disabled, so that they stay disabled until main() calls
\* irq_enable(); called from the scan loop with interrupts enabled it
\* returns with interrupts enabled.
C27_InterruptStateKept ==
    /\ InSetupAfterClockRead => ~SREG_I
    /\ pc \in {"scan_loop", "wdt_reset"} => SREG_I

\* the bits of port p that belong to output o
BitsOf(o, p) == IF p = output_pin[o].output_port THEN {output_pin[o].output_bit} ELSE {}

\* C28: scan_one_input_pin(conn, now) changes only input_is_asserted and
\* dwell_timeout of conn and the level and the port bit of conn->out: the
\* state and the deadline of every other connection, the level and the port
\* bit of every other output (and every other bit of the ports and the
\* direction registers) and the clock high word are as before the call.
C28_ScanFrame ==
    [][\A c \in Conns :
          ScanStep(c) =>
            LET o == Conn(c).out
            IN  /\ \A d \in Conns \ {c} :
                      /\ input_is_asserted'[d] = input_is_asserted[d]
                      /\ dwell_timeout'[d] = dwell_timeout[d]
                /\ \A q \in Outputs \ {o} : level'[q] = level[q]
                /\ \A p \in Ports : PORT'[p] \ BitsOf(o, p) = PORT[p] \ BitsOf(o, p)
                /\ DDR' = DDR
                /\ jiffies_high16' = jiffies_high16]_vars

\* C28 witness: the scan of connection 2 has asserted it and driven its
\* output while connection 0 is Asserted and holds another output driven.
C28_Witness ==
    /\ JustScanned
    /\ i = 2
    /\ lastOp.op = "inc"
    /\ lastOp.writes = 1
    /\ Driven(Conn(2).out)
    /\ input_is_asserted[0]
    /\ Conn(0).out # Conn(2).out
    /\ Driven(Conn(0).out)

====
